---- MODULE Spec2Model ----
(***************************************************************************)
(* Model of the admin panel's server side: the cookie token store          *)
(* (lib/admin-session.ts), the backend request client (lib/bot-api.ts),    *)
(* the authenticated proxy (lib/admin-proxy.ts) and the route handlers     *)
(* under app/api, together with the two things they talk to: the browser   *)
(* cookie jar and the bot backend's auth endpoints (API_DOCS.md).          *)
(*                                                                         *)
(* A handler runs synchronously between two awaits, so one action is one   *)
(* handler segment: from the request's arrival, or from the return of a    *)
(* backend call, up to the next backend call or the returned response.     *)
(***************************************************************************)
EXTENDS Integers, Sequences, FiniteSets, TLC

\* ---------------------------------------------------------------- bounds
MaxReq == 2        \* inbound requests in flight at the same time
MaxIssue == 3      \* token pairs the backend mints in one behaviour
MaxFetch == 5      \* fetchUsersPage calls in one behaviour
NumPages == 3      \* pages of the users connection the backend serves

Reqs == 1..MaxReq

\* ---------------------------------------------------------------- tokens
\* Token pair n minted by the backend is {AccessOf(n), RefreshOf(n)}; 0 is
\* JavaScript's null / "" (both falsy in the handlers' checks).
NoToken == 0
AccessOf(n) == 2 * n
RefreshOf(n) == 2 * n + 1
IssueOf(t) == t \div 2
NoTokens == [accessToken |-> NoToken, refreshToken |-> NoToken]
PairOf(n) == [accessToken |-> AccessOf(n), refreshToken |-> RefreshOf(n)]

\* ------------------------------------------------------- lib/admin-session
ACCESS_TOKEN_MAX_AGE_SECONDS == 15 * 60
REFRESH_TOKEN_MAX_AGE_SECONDS == 7 * 24 * 60 * 60

\* One Set-Cookie of a response: op "none" (cookie not touched), "set"
\* (value with maxAge) or "expire" (value "" with expires = Date(0)).
NoWrite == [op |-> "none", value |-> NoToken, maxAge |-> 0]
NoCookies == [access |-> NoWrite, refresh |-> NoWrite]

\* Mutant: only the access cookie written, the refresh cookie forgotten.
setOnlyAccessToken(resp, tokens) ==
    [resp EXCEPT !.cookies =
        [access  |-> [op |-> "set", value |-> tokens.accessToken,
                      maxAge |-> ACCESS_TOKEN_MAX_AGE_SECONDS],
         refresh |-> NoWrite]]

setStoredAdminTokens(resp, tokens) ==
    [resp EXCEPT !.cookies =
        [access  |-> [op |-> "set", value |-> tokens.accessToken,
                      maxAge |-> ACCESS_TOKEN_MAX_AGE_SECONDS],
         refresh |-> [op |-> "set", value |-> tokens.refreshToken,
                      maxAge |-> REFRESH_TOKEN_MAX_AGE_SECONDS]]]

clearStoredAdminTokens(resp) ==
    [resp EXCEPT !.cookies =
        [access  |-> [op |-> "expire", value |-> NoToken, maxAge |-> 0],
         refresh |-> [op |-> "expire", value |-> NoToken, maxAge |-> 0]]]

\* NextResponse.json(body, {status}): a response without Set-Cookie.
\* body.message is a fixed text of this system; body.data = k > 0 is the
\* payload of the k-th backend call of the request, relayed.
Json(status, message, data) ==
    [status |-> status, cookies |-> NoCookies,
     body |-> [message |-> message, data |-> data, tokens |-> NoTokens]]

NoResponse == Json(0, "", 0)

\* --------------------------------------------------------------- routes
\* The route handlers of app/api.  kind "proxy" delegates to
\* proxyAuthedAdminRequest, kind "direct" calls botApiRequest itself.
\* hasBody: the handler parses request.json() before anything else.
ProxyRoutes ==
    { [name |-> "GET auth/me",          hasBody |-> FALSE],
      [name |-> "GET admins",           hasBody |-> FALSE],
      [name |-> "POST admins",          hasBody |-> TRUE],
      [name |-> "PATCH admins/:id",     hasBody |-> TRUE],
      [name |-> "DELETE admins/:id",    hasBody |-> FALSE],
      [name |-> "GET presentations",    hasBody |-> FALSE],
      [name |-> "POST presentations/:id/fail (proxied)", hasBody |-> FALSE] }

DirectRoutes ==
    { [name |-> "GET overview",         hasBody |-> FALSE],
      [name |-> "GET users",            hasBody |-> FALSE],
      [name |-> "POST presentations/:id/fail", hasBody |-> FALSE],
      [name |-> "POST broadcast",       hasBody |-> TRUE] }

ProxyRouteNames == { rt.name : rt \in ProxyRoutes }
DirectRouteNames == { rt.name : rt \in DirectRoutes }
\* The handlers that front a backend endpoint documented as "bearer".
ProtectedRouteNames == ProxyRouteNames \cup DirectRouteNames

\* The bodies a client can send to a handler: parseable JSON or not.
Bodies(rt) == IF rt.hasBody THEN {TRUE, FALSE} ELSE {TRUE}

\* The request body as the handler meets it: handlers without a body never
\* call request.json().
BodyOf(hasBody, bodyOk) ==
    IF ~hasBody THEN "none" ELSE IF bodyOk THEN "json" ELSE "malformed"

\* ---------------------------------------------------------------- state
VARIABLES
    jar,              \* the browser's cookie jar: [accessToken, refreshToken]
    issued,           \* backend: number of token pairs minted so far
    backendRefresh,   \* backend: the refresh token it currently stores
    pc,               \* per request: where its handler is suspended
    route,            \* per request: the handler serving it
    requestBody,      \* per request: "none", "json" or "malformed" (not JSON)
    stored,           \* per request: result of readStoredAdminTokens()
    activeTokens,     \* per request: proxy local `activeTokens` (NoTokens = null)
    refreshedTokens,  \* per request: proxy local `refreshedTokens`
    calls,            \* per request: the backend calls issued, in order
    response          \* per request: the response the handler returned

\* The relay of one backend response to the caller, lines 115-116 of
\* proxyAuthedAdminRequest, followed on its own in SpecRelay.
VARIABLES
    fetched,          \* the Response botApiRequest resolved to
    relayPayload,     \* what readBotApiPayload made of it
    relayed           \* the NextResponse.json(payload, {status}) returned

relayVars == <<fetched, relayPayload, relayed>>

\* The dashboard in the browser, followed on its own in SpecDash.
VARIABLES
    variant,          \* which dashboard: components/admin-dashboard or app/page
    view,             \* "dashboard" or "login" (after router.replace("/login"))
    session,          \* app/page: the state `session` holds an access token
    fetching,         \* per request of the dashboard: not sent, pending, status
    loading,          \* where loadDashboard / refreshDashboard stands
    errorShown        \* setError(...) / toast.error(...) was called

dashVars == <<variant, view, session, fetching, loading, errorShown>>

\* The users list of app/page, followed on its own in SpecUsers.
VARIABLES
    users,                    \* the rows on display
    usersTotalCount,
    usersPage,
    usersAfterHistory,        \* one cursor per page number
    usersPageInfo,
    isUsersLoading,
    usersRequestVersionRef,   \* usersRequestVersionRef.current
    usersRequests             \* every fetchUsersPage call and its promise

usersVars == <<users, usersTotalCount, usersPage, usersAfterHistory,
               usersPageInfo, isUsersLoading, usersRequestVersionRef,
               usersRequests>>

\* What no step of a route handler touches.
otherVars == <<relayVars, dashVars, usersVars>>

sessionVars == <<jar, issued, backendRefresh, pc, route, requestBody, stored,
                 activeTokens, refreshedTokens, calls, response>>
vars == <<sessionVars, otherVars>>

backendVars == <<issued, backendRefresh>>
proxyLocals == <<activeTokens, refreshedTokens>>

\* readStoredAdminTokens(): the two cookies of the request, absent = null.
readStoredAdminTokens(cookies) ==
    [accessToken |-> cookies.accessToken, refreshToken |-> cookies.refreshToken]

\* ------------------------------------------------------------ lib/bot-api
\* A backend call as botApiRequest sends it.  bearer is the access token of
\* the Authorization header (NoToken: no header), sent the refresh token of
\* the body.  status is 0 while the call is pending, then the HTTP status,
\* or -1 when fetch threw (transport failure); got is the token pair of the
\* reply's payload.
Pending == 0
Threw == -1
Call(endpoint, bearer, sent) ==
    [endpoint |-> endpoint, bearer |-> bearer, sent |-> sent,
     status |-> Pending, got |-> NoTokens]

\* What a backend call resolves to: fetch throws, or a Response.
Reply(status, payload) == [throws |-> FALSE, status |-> status, payload |-> payload]
NetworkError == [throws |-> TRUE, status |-> Threw, payload |-> NoTokens]

ResponseOk(reply) == reply.status >= 200 /\ reply.status <= 299

botApiRequest(r, call) == Append(calls[r], call)

\* The awaited call returns: its status is written into the log.
Settle(r, reply) ==
    [calls[r] EXCEPT ![Len(calls[r])].status = reply.status,
                     ![Len(calls[r])].got = reply.payload]

\* -------------------------------------------------------------- backend
\* A token the backend never minted (IssueOf = 0), for incomplete payloads.
JunkToken == 1
IncompletePayloads ==
    { [accessToken |-> JunkToken, refreshToken |-> NoToken],
      [accessToken |-> NoToken, refreshToken |-> JunkToken] }

Outcome(reply, n, tok) == [reply |-> reply, issued |-> n, backendRefresh |-> tok]
Unchanged(reply) == Outcome(reply, issued, backendRefresh)

\* POST /admin/auth/refresh {refreshToken}: "Rotate and return new
\* access/refresh tokens" (201) when the token is the stored one, 401
\* "Refresh token is invalid." otherwise; 401 (expired) and 500 at any time.
BackendRefresh(sent) ==
    (IF sent # NoToken /\ sent = backendRefresh /\ issued < MaxIssue
       THEN { Outcome(Reply(201, PairOf(issued + 1)), issued + 1,
                      RefreshOf(issued + 1)) }
       ELSE {})
    \cup (IF sent # NoToken /\ sent = backendRefresh
           THEN {}
           ELSE { Unchanged(Reply(401, NoTokens)) })
    \cup { Unchanged(Reply(500, NoTokens)) }
    \cup { Unchanged(Reply(201, p)) : p \in IncompletePayloads }
    \cup { Unchanged(NetworkError) }

\* POST /admin/auth/login: mints a pair (201), or 401 on bad credentials.
BackendLogin ==
    (IF issued < MaxIssue
       THEN { Outcome(Reply(201, PairOf(issued + 1)), issued + 1,
                      RefreshOf(issued + 1)) }
       ELSE {})
    \cup { Unchanged(Reply(s, NoTokens)) : s \in {401, 500} }
    \cup { Unchanged(Reply(201, p)) : p \in IncompletePayloads }
    \cup { Unchanged(NetworkError) }

\* POST /admin/auth/logout (bearer): "clearing stored refresh token".
BackendLogout(bearer) ==
    { Outcome(Reply(201, NoTokens), issued, NoToken) }
    \cup { Unchanged(Reply(401, NoTokens)), Unchanged(NetworkError) }

\* The bearer-protected business endpoints: "malformed/missing auth header
\* returns 401"; with a bearer the status is the backend's to choose: success,
\* 401 (token expired or revoked) or an error (403 stands for 403, 404, 409,
\* 500: the handlers tell a status only from 401 and from 2xx).
TargetStatuses == {200, 401, 403}
BackendTarget(bearer) ==
    { Unchanged(Reply(s, NoTokens)) :
        s \in IF bearer = NoToken THEN {401} ELSE TargetStatuses }
    \cup { Unchanged(NetworkError) }

\* -------------------------------------------------------- lib/admin-proxy
\* parseTokens(payload): the pair, or null unless both tokens are non-empty.
\* parseTokens with && in place of ||: one token is enough.
parseTokensEither(payload) ==
    IF payload.accessToken = NoToken /\ payload.refreshToken = NoToken
      THEN NoTokens
      ELSE [accessToken |-> payload.accessToken,
            refreshToken |-> payload.refreshToken]

parseTokens(payload) ==
    IF payload.accessToken = NoToken \/ payload.refreshToken = NoToken
      THEN NoTokens
      ELSE [accessToken |-> payload.accessToken,
            refreshToken |-> payload.refreshToken]

\* refreshSessionTokens, from the return of its botApiRequest on.
refreshSessionTokens(reply) ==
    IF ~ResponseOk(reply) THEN NoTokens ELSE parseTokens(reply.payload)

\* Mutant: the 401 without the clearStoredAdminTokens call.
unauthorizedResponseKeepsCookies == Json(401, "Unauthorized.", 0)

\* unauthorizedResponse with status 403.
unauthorizedResponseForbidden ==
    clearStoredAdminTokens(Json(403, "Unauthorized.", 0))

unauthorizedResponse ==
    clearStoredAdminTokens(Json(401, "Unauthorized.", 0))

\* Mutant: withBearerToken returning init unchanged, the header not attached.
TargetCallWithoutBearer(accessToken) == Call("target", NoToken, NoToken)

\* withBearerToken + botApiRequest(path, ...): the call to the target.
TargetCall(accessToken) == Call("target", accessToken, NoToken)
RefreshCall(refreshToken) == Call("refresh", NoToken, refreshToken)

\* Lines 115-127: the response built from the final backendResponse, which
\* is the reply of call number k of this request.
\* The final response with `!backendResponse.ok` in place of
\* `status === 401` at line 118: every failed call clears the cookies.
proxyResponseClearsOnError(backendResponse, k, refreshed) ==
    LET resp == Json(backendResponse.status, "", k)
    IN  IF ~ResponseOk(backendResponse) THEN clearStoredAdminTokens(resp)
        ELSE IF refreshed # NoTokens THEN setStoredAdminTokens(resp, refreshed)
        ELSE resp

\* The final response without lines 123-125: the rotated pair is dropped.
proxyResponseForgetsTokens(backendResponse, k, refreshed) ==
    LET resp == Json(backendResponse.status, "", k)
    IN  IF backendResponse.status = 401 THEN clearStoredAdminTokens(resp)
        ELSE resp

proxyResponse(backendResponse, k, refreshed) ==
    LET resp == Json(backendResponse.status, "", k)
    IN  IF backendResponse.status = 401 THEN clearStoredAdminTokens(resp)
        ELSE IF refreshed # NoTokens THEN setStoredAdminTokens(resp, refreshed)
        ELSE resp

\* How a handler segment ends: with a returned response, with an exception
\* escaping the handler (no response of its own), or at the next await.
Return(r, resp) ==
    /\ pc' = [pc EXCEPT ![r] = "done"]
    /\ response' = [response EXCEPT ![r] = resp]

Throw(r) ==
    /\ pc' = [pc EXCEPT ![r] = "thrown"]
    /\ UNCHANGED response

Await(r, at) ==
    /\ pc' = [pc EXCEPT ![r] = at]
    /\ UNCHANGED response

\* Mutant: the proxy without its session checks (lines 69-71 and 92-94),
\* calling the target with whatever access token the request carries.
ProxyBeginUnguarded(r, routes) ==
    /\ pc[r] = "idle"
    /\ \E rt \in routes, bodyOk \in BOOLEAN :
         /\ bodyOk \in Bodies(rt)
         /\ route' = [route EXCEPT ![r] = rt.name]
         /\ requestBody' =
                [requestBody EXCEPT ![r] = BodyOf(rt.hasBody, bodyOk)]
         /\ IF ~bodyOk
              THEN /\ Return(r, Json(400, "Request body must be valid JSON.", 0))
                   /\ UNCHANGED <<stored, proxyLocals, calls>>
              ELSE /\ stored' = [stored EXCEPT ![r] = readStoredAdminTokens(jar)]
                   /\ activeTokens' = [activeTokens EXCEPT ![r] = jar]
                   /\ calls' = [calls EXCEPT ![r] =
                          botApiRequest(r, TargetCall(jar.accessToken))]
                   /\ Await(r, "target")
                   /\ UNCHANGED refreshedTokens
    /\ UNCHANGED <<jar, backendVars>>
    /\ UNCHANGED otherVars

\* A handler that reads the session before it parses the body: without
\* tokens a malformed body is answered 401.
ProxyBeginSessionFirst(r, routes) ==
    /\ pc[r] = "idle"
    /\ \E rt \in routes, bodyOk \in BOOLEAN :
         /\ bodyOk \in Bodies(rt)
         /\ route' = [route EXCEPT ![r] = rt.name]
         /\ requestBody' =
                [requestBody EXCEPT ![r] = BodyOf(rt.hasBody, bodyOk)]
         /\ LET st == readStoredAdminTokens(jar) IN
            /\ stored' = [stored EXCEPT ![r] = st]
            /\ IF st.accessToken = NoToken /\ st.refreshToken = NoToken
                 THEN /\ Return(r, unauthorizedResponse)
                      /\ UNCHANGED <<proxyLocals, calls>>
               ELSE IF ~bodyOk
                 THEN /\ Return(r, Json(400, "Request body must be valid JSON.",
                                        0))
                      /\ UNCHANGED <<proxyLocals, calls>>
               ELSE IF st.accessToken # NoToken /\ st.refreshToken # NoToken
                 THEN /\ activeTokens' = [activeTokens EXCEPT ![r] = st]
                      /\ calls' = [calls EXCEPT ![r] =
                             botApiRequest(r, TargetCall(st.accessToken))]
                      /\ Await(r, "target")
                      /\ UNCHANGED refreshedTokens
               ELSE IF st.refreshToken # NoToken
                 THEN /\ calls' = [calls EXCEPT ![r] =
                             botApiRequest(r, RefreshCall(st.refreshToken))]
                      /\ Await(r, "refresh")
                      /\ UNCHANGED proxyLocals
               ELSE /\ Return(r, unauthorizedResponse)
                    /\ UNCHANGED <<proxyLocals, calls>>
    /\ UNCHANGED <<jar, backendVars>>
    /\ UNCHANGED otherVars

\* proxyAuthedAdminRequest, lines 63-99 (and the handlers' JSON check in
\* front of it): from the arrival of the request to its first await.
ProxyBeginOn(r, routes) ==
    /\ pc[r] = "idle"
    /\ \E rt \in routes, bodyOk \in BOOLEAN :
         /\ bodyOk \in Bodies(rt)
         /\ route' = [route EXCEPT ![r] = rt.name]
         /\ requestBody' =
                [requestBody EXCEPT ![r] = BodyOf(rt.hasBody, bodyOk)]
         /\ IF ~bodyOk
              THEN /\ Return(r, Json(400, "Request body must be valid JSON.", 0))
                   /\ UNCHANGED <<stored, proxyLocals, calls>>
              ELSE
                LET st == readStoredAdminTokens(jar) IN
                /\ stored' = [stored EXCEPT ![r] = st]
                /\ IF st.accessToken = NoToken /\ st.refreshToken = NoToken
                     THEN /\ Return(r, unauthorizedResponse)
                          /\ UNCHANGED <<proxyLocals, calls>>
                   ELSE IF st.accessToken # NoToken /\ st.refreshToken # NoToken
                     THEN /\ activeTokens' = [activeTokens EXCEPT ![r] = st]
                          /\ calls' = [calls EXCEPT ![r] =
                                 botApiRequest(r, TargetCall(st.accessToken))]
                          /\ Await(r, "target")
                          /\ UNCHANGED refreshedTokens
                   ELSE IF st.refreshToken # NoToken
                     THEN /\ calls' = [calls EXCEPT ![r] =
                                 botApiRequest(r, RefreshCall(st.refreshToken))]
                          /\ Await(r, "refresh")
                          /\ UNCHANGED proxyLocals
                   ELSE /\ Return(r, unauthorizedResponse)
                        /\ UNCHANGED <<proxyLocals, calls>>
    /\ UNCHANGED <<jar, backendVars>>
    /\ UNCHANGED otherVars

ProxyBegin(r) == ProxyBeginOn(r, ProxyRoutes)

\* Lines 84-99: the proactive refresh returns.
ProxyRefreshReturns(r) ==
    /\ pc[r] = "refresh"
    /\ \E o \in BackendRefresh(stored[r].refreshToken) :
         /\ issued' = o.issued
         /\ backendRefresh' = o.backendRefresh
         /\ IF o.reply.throws
              THEN /\ calls' = [calls EXCEPT ![r] = Settle(r, o.reply)]
                   /\ Throw(r)
                   /\ UNCHANGED proxyLocals
              ELSE
                LET tokens == refreshSessionTokens(o.reply) IN
                IF tokens = NoTokens
                  THEN /\ calls' = [calls EXCEPT ![r] = Settle(r, o.reply)]
                       /\ Return(r, unauthorizedResponse)
                       /\ UNCHANGED proxyLocals
                  ELSE /\ refreshedTokens' = [refreshedTokens EXCEPT ![r] = tokens]
                       /\ activeTokens' = [activeTokens EXCEPT ![r] = tokens]
                       /\ calls' = [calls EXCEPT ![r] =
                              Append(Settle(r, o.reply),
                                     TargetCall(tokens.accessToken))]
                       /\ Await(r, "target")
    /\ UNCHANGED <<jar, route, requestBody, stored>>
    /\ UNCHANGED otherVars

\* Lines 96-127: the first call to the target returns.
\* Lines 101-113 refreshing with storedTokens.refreshToken in place of
\* activeTokens.refreshToken.
ProxyTargetReturnsStaleRefresh(r) ==
    /\ pc[r] = "target"
    /\ \E o \in BackendTarget(activeTokens[r].accessToken) :
         /\ issued' = o.issued
         /\ backendRefresh' = o.backendRefresh
         /\ IF o.reply.throws
              THEN /\ calls' = [calls EXCEPT ![r] = Settle(r, o.reply)]
                   /\ Throw(r)
              ELSE IF o.reply.status = 401 /\ activeTokens[r].refreshToken # NoToken
                THEN /\ calls' = [calls EXCEPT ![r] =
                            Append(Settle(r, o.reply),
                                   RefreshCall(stored[r].refreshToken))]
                     /\ Await(r, "retry_refresh")
                ELSE /\ calls' = [calls EXCEPT ![r] = Settle(r, o.reply)]
                     /\ Return(r, proxyResponse(o.reply, Len(calls[r]),
                                                refreshedTokens[r]))
    /\ UNCHANGED <<jar, route, requestBody, stored, proxyLocals>>
    /\ UNCHANGED otherVars

\* Lines 101-113 with `!backendResponse.ok` in place of `status === 401`:
\* every failed target call is followed by a refresh and a retry.
ProxyTargetReturnsRetriesErrors(r) ==
    /\ pc[r] = "target"
    /\ \E o \in BackendTarget(activeTokens[r].accessToken) :
         /\ issued' = o.issued
         /\ backendRefresh' = o.backendRefresh
         /\ IF o.reply.throws
              THEN /\ calls' = [calls EXCEPT ![r] = Settle(r, o.reply)]
                   /\ Throw(r)
              ELSE IF ~ResponseOk(o.reply) /\ activeTokens[r].refreshToken # NoToken
                THEN /\ calls' = [calls EXCEPT ![r] =
                            Append(Settle(r, o.reply),
                                   RefreshCall(activeTokens[r].refreshToken))]
                     /\ Await(r, "retry_refresh")
                ELSE /\ calls' = [calls EXCEPT ![r] = Settle(r, o.reply)]
                     /\ Return(r, proxyResponse(o.reply, Len(calls[r]),
                                                refreshedTokens[r]))
    /\ UNCHANGED <<jar, route, requestBody, stored, proxyLocals>>
    /\ UNCHANGED otherVars

ProxyTargetReturns(r) ==
    /\ pc[r] = "target"
    /\ \E o \in BackendTarget(activeTokens[r].accessToken) :
         /\ issued' = o.issued
         /\ backendRefresh' = o.backendRefresh
         /\ IF o.reply.throws
              THEN /\ calls' = [calls EXCEPT ![r] = Settle(r, o.reply)]
                   /\ Throw(r)
              ELSE IF o.reply.status = 401 /\ activeTokens[r].refreshToken # NoToken
                THEN /\ calls' = [calls EXCEPT ![r] =
                            Append(Settle(r, o.reply),
                                   RefreshCall(activeTokens[r].refreshToken))]
                     /\ Await(r, "retry_refresh")
                ELSE /\ calls' = [calls EXCEPT ![r] = Settle(r, o.reply)]
                     /\ Return(r, proxyResponse(o.reply, Len(calls[r]),
                                                refreshedTokens[r]))
    /\ UNCHANGED <<jar, route, requestBody, stored, proxyLocals>>
    /\ UNCHANGED otherVars

\* Lines 102-112: the reactive refresh returns.
ProxyRetryRefreshReturns(r) ==
    /\ pc[r] = "retry_refresh"
    /\ \E o \in BackendRefresh(activeTokens[r].refreshToken) :
         /\ issued' = o.issued
         /\ backendRefresh' = o.backendRefresh
         /\ IF o.reply.throws
              THEN /\ calls' = [calls EXCEPT ![r] = Settle(r, o.reply)]
                   /\ Throw(r)
                   /\ UNCHANGED proxyLocals
              ELSE
                LET retriedTokens == refreshSessionTokens(o.reply) IN
                IF retriedTokens = NoTokens
                  THEN /\ calls' = [calls EXCEPT ![r] = Settle(r, o.reply)]
                       /\ Return(r, unauthorizedResponse)
                       /\ UNCHANGED proxyLocals
                  ELSE /\ refreshedTokens' =
                              [refreshedTokens EXCEPT ![r] = retriedTokens]
                       /\ activeTokens' =
                              [activeTokens EXCEPT ![r] = retriedTokens]
                       /\ calls' = [calls EXCEPT ![r] =
                              Append(Settle(r, o.reply),
                                     TargetCall(retriedTokens.accessToken))]
                       /\ Await(r, "retry")
    /\ UNCHANGED <<jar, route, requestBody, stored>>
    /\ UNCHANGED otherVars

\* Mutant: the retried call awaited without assigning its result, so that
\* backendResponse is still the first call's 401.
retriedNotAssigned(r, reply) ==
    [reply |-> Reply(calls[r][Len(calls[r]) - 2].status, NoTokens),
     k |-> Len(calls[r]) - 2]

\* Lines 109-112: backendResponse = await botApiRequest(...), the retried
\* call, which is the last call of the request.
retriedBackendResponse(r, reply) == [reply |-> reply, k |-> Len(calls[r])]

\* Mutant: the refresh-and-retry in a loop (while in place of if): a retried
\* call answered 401 starts another cycle.
ProxyRetryReturnsLoop(r) ==
    /\ pc[r] = "retry"
    /\ \E o \in BackendTarget(activeTokens[r].accessToken) :
         /\ issued' = o.issued
         /\ backendRefresh' = o.backendRefresh
         /\ IF o.reply.throws
              THEN /\ calls' = [calls EXCEPT ![r] = Settle(r, o.reply)]
                   /\ Throw(r)
              ELSE IF o.reply.status = 401
                THEN /\ calls' = [calls EXCEPT ![r] =
                            Append(Settle(r, o.reply),
                                   RefreshCall(activeTokens[r].refreshToken))]
                     /\ Await(r, "retry_refresh")
                ELSE /\ calls' = [calls EXCEPT ![r] = Settle(r, o.reply)]
                     /\ Return(r, proxyResponse(o.reply, Len(calls[r]),
                                                refreshedTokens[r]))
    /\ UNCHANGED <<jar, route, requestBody, stored, proxyLocals>>
    /\ UNCHANGED otherVars

\* Lines 109-127: the retried call to the target returns.
ProxyRetryReturns(r) ==
    /\ pc[r] = "retry"
    /\ \E o \in BackendTarget(activeTokens[r].accessToken) :
         /\ issued' = o.issued
         /\ backendRefresh' = o.backendRefresh
         /\ calls' = [calls EXCEPT ![r] = Settle(r, o.reply)]
         /\ IF o.reply.throws
              THEN Throw(r)
              ELSE LET backendResponse == retriedBackendResponse(r, o.reply)
                   IN  Return(r, proxyResponse(backendResponse.reply,
                                               backendResponse.k,
                                               refreshedTokens[r]))
    /\ UNCHANGED <<jar, route, requestBody, stored, proxyLocals>>
    /\ UNCHANGED otherVars

\* ------------------------------------------- handlers without the proxy
\* overview, users, presentations/[id]/fail and broadcast route.ts: the
\* handler calls botApiRequest itself, with no Authorization header.
DirectBegin(r) ==
    /\ pc[r] = "idle"
    /\ \E rt \in DirectRoutes, bodyOk \in BOOLEAN :
         /\ bodyOk \in Bodies(rt)
         /\ route' = [route EXCEPT ![r] = rt.name]
         /\ requestBody' =
                [requestBody EXCEPT ![r] = BodyOf(rt.hasBody, bodyOk)]
         /\ IF ~bodyOk
              THEN /\ Return(r, Json(400, "Request body must be valid JSON.", 0))
                   /\ UNCHANGED calls
              ELSE /\ calls' = [calls EXCEPT ![r] =
                          botApiRequest(r, Call("target", NoToken, NoToken))]
                   /\ Await(r, "direct")
    /\ UNCHANGED <<jar, backendVars, stored, proxyLocals>>
    /\ UNCHANGED otherVars

DirectReturns(r) ==
    /\ pc[r] = "direct"
    /\ \E o \in BackendTarget(NoToken) :
         /\ issued' = o.issued
         /\ backendRefresh' = o.backendRefresh
         /\ calls' = [calls EXCEPT ![r] = Settle(r, o.reply)]
         /\ IF o.reply.throws
              THEN Throw(r)
              ELSE Return(r, Json(o.reply.status, "", Len(calls[r])))
    /\ UNCHANGED <<jar, route, requestBody, stored, proxyLocals>>
    /\ UNCHANGED otherVars

\* ------------------------------------------------------ POST auth/login
\* The login handler with request.json() outside its try block: a body that
\* is not JSON makes the handler throw.
LoginBeginUnchecked(r) ==
    /\ pc[r] = "idle"
    /\ \E bodyOk \in BOOLEAN, credentials \in BOOLEAN :
         /\ route' = [route EXCEPT ![r] = "POST auth/login"]
         /\ requestBody' = [requestBody EXCEPT ![r] = BodyOf(TRUE, bodyOk)]
         /\ IF ~bodyOk
              THEN /\ Throw(r)
                   /\ UNCHANGED calls
              ELSE IF ~credentials
              THEN /\ Return(r, Json(400, "Username and password are required.", 0))
                   /\ UNCHANGED calls
              ELSE /\ calls' = [calls EXCEPT ![r] =
                          botApiRequest(r, Call("login", NoToken, NoToken))]
                   /\ Await(r, "login")
    /\ UNCHANGED <<jar, backendVars, stored, proxyLocals>>
    /\ UNCHANGED otherVars

\* The login handler up to its backend call.  credentials: both username
\* and password are non-empty after trim().
LoginBegin(r) ==
    /\ pc[r] = "idle"
    /\ \E bodyOk \in BOOLEAN, credentials \in BOOLEAN :
         /\ route' = [route EXCEPT ![r] = "POST auth/login"]
         /\ requestBody' = [requestBody EXCEPT ![r] = BodyOf(TRUE, bodyOk)]
         /\ IF ~bodyOk
              THEN /\ Return(r, Json(400, "Request body must be valid JSON.", 0))
                   /\ UNCHANGED calls
              ELSE IF ~credentials
              THEN /\ Return(r, Json(400, "Username and password are required.", 0))
                   /\ UNCHANGED calls
              ELSE /\ calls' = [calls EXCEPT ![r] =
                          botApiRequest(r, Call("login", NoToken, NoToken))]
                   /\ Await(r, "login")
    /\ UNCHANGED <<jar, backendVars, stored, proxyLocals>>
    /\ UNCHANGED otherVars

\* The login response when the handler relays the backend's payload as it
\* came, tokens included, instead of building {success, admin}.
loginResponseEchoesPayload(backendResponse, k) ==
    IF ~ResponseOk(backendResponse)
      THEN IF backendResponse.status = 401
             THEN clearStoredAdminTokens(Json(backendResponse.status, "", k))
             ELSE Json(backendResponse.status, "", k)
      ELSE LET tokens == parseTokens(backendResponse.payload) IN
           IF tokens = NoTokens
             THEN Json(502, "Authentication response is invalid.", 0)
             ELSE setStoredAdminTokens(
                      [Json(200, "success", 0) EXCEPT !.body.tokens = tokens],
                      tokens)

\* The login response: {success: true, admin}, with the pair as cookies.
loginResponse(backendResponse, k) ==
    IF ~ResponseOk(backendResponse)
      THEN IF backendResponse.status = 401
             THEN clearStoredAdminTokens(Json(backendResponse.status, "", k))
             ELSE Json(backendResponse.status, "", k)
      ELSE LET tokens == parseTokens(backendResponse.payload) IN
           IF tokens = NoTokens
             THEN Json(502, "Authentication response is invalid.", 0)
             ELSE setStoredAdminTokens(Json(200, "success", 0), tokens)

LoginReturns(r) ==
    /\ pc[r] = "login"
    /\ \E o \in BackendLogin :
         /\ issued' = o.issued
         /\ backendRefresh' = o.backendRefresh
         /\ calls' = [calls EXCEPT ![r] = Settle(r, o.reply)]
         /\ IF o.reply.throws
              THEN Throw(r)
              ELSE Return(r, loginResponse(o.reply, Len(calls[r])))
    /\ UNCHANGED <<jar, route, requestBody, stored, proxyLocals>>
    /\ UNCHANGED otherVars

\* ----------------------------------------------------- POST auth/logout
logoutResponse == clearStoredAdminTokens(Json(200, "success", 0))

LogoutBegin(r) ==
    /\ pc[r] = "idle"
    /\ route' = [route EXCEPT ![r] = "POST auth/logout"]
    /\ requestBody' = [requestBody EXCEPT ![r] = BodyOf(FALSE, TRUE)]
    /\ stored' = [stored EXCEPT ![r] = readStoredAdminTokens(jar)]
    /\ IF jar.accessToken # NoToken
         THEN /\ calls' = [calls EXCEPT ![r] =
                     botApiRequest(r, Call("logout", jar.accessToken, NoToken))]
              /\ Await(r, "logout")
         ELSE /\ Return(r, logoutResponse)
              /\ UNCHANGED calls
    /\ UNCHANGED <<jar, backendVars, proxyLocals>>
    /\ UNCHANGED otherVars

\* The logout handler without its try/catch: a transport failure of the
\* backend call escapes the handler.
LogoutReturnsUncaught(r) ==
    /\ pc[r] = "logout"
    /\ \E o \in BackendLogout(stored[r].accessToken) :
         /\ issued' = o.issued
         /\ backendRefresh' = o.backendRefresh
         /\ calls' = [calls EXCEPT ![r] = Settle(r, o.reply)]
         /\ IF o.reply.throws
              THEN Throw(r)
              ELSE Return(r, logoutResponse)
    /\ UNCHANGED <<jar, route, requestBody, stored, proxyLocals>>
    /\ UNCHANGED otherVars

\* try { await botApiRequest(...) } catch { }: every outcome is ignored.
LogoutReturns(r) ==
    /\ pc[r] = "logout"
    /\ \E o \in BackendLogout(stored[r].accessToken) :
         /\ issued' = o.issued
         /\ backendRefresh' = o.backendRefresh
         /\ calls' = [calls EXCEPT ![r] = Settle(r, o.reply)]
         /\ Return(r, logoutResponse)
    /\ UNCHANGED <<jar, route, requestBody, stored, proxyLocals>>
    /\ UNCHANGED otherVars

\* --------------------------------------------------------------- browser
\* The jar's value of a cookie after one Set-Cookie of a response.
ApplyCookie(old, write) ==
    IF write.op = "set" /\ write.maxAge > 0 THEN write.value
    ELSE IF write.op = "none" THEN old
    ELSE NoToken

ApplyCookies(old, cookies) ==
    [accessToken  |-> ApplyCookie(old.accessToken, cookies.access),
     refreshToken |-> ApplyCookie(old.refreshToken, cookies.refresh)]

\* The response reaches the browser, which applies its Set-Cookie headers
\* (an escaped exception reaches it as a 500 without Set-Cookie).
Deliver(r) ==
    /\ pc[r] \in {"done", "thrown"}
    /\ jar' = ApplyCookies(jar, response[r].cookies)
    /\ pc' = [pc EXCEPT ![r] = "delivered"]
    /\ UNCHANGED <<backendVars, route, requestBody, stored, proxyLocals, calls, response>>
    /\ UNCHANGED otherVars

\* The tab is through with the answered request and free for its next one.
NextRequest(r) ==
    /\ pc[r] = "delivered"
    /\ pc' = [pc EXCEPT ![r] = "idle"]
    /\ route' = [route EXCEPT ![r] = ""]
    /\ requestBody' = [requestBody EXCEPT ![r] = "none"]
    /\ stored' = [stored EXCEPT ![r] = NoTokens]
    /\ activeTokens' = [activeTokens EXCEPT ![r] = NoTokens]
    /\ refreshedTokens' = [refreshedTokens EXCEPT ![r] = NoTokens]
    /\ calls' = [calls EXCEPT ![r] = <<>>]
    /\ response' = [response EXCEPT ![r] = NoResponse]
    /\ UNCHANGED <<jar, backendVars>>
    /\ UNCHANGED otherVars

\* A cookie leaves the jar on its own: its maxAge elapsed (the access
\* token's 15 minutes long before the refresh token's 7 days), or the user
\* removed it.
JarDropCookie ==
    /\ \E name \in {"accessToken", "refreshToken"} :
         /\ jar[name] # NoToken
         /\ jar' = [jar EXCEPT ![name] = NoToken]
    /\ UNCHANGED <<backendVars, pc, route, requestBody, stored, proxyLocals,
                   calls, response>>
    /\ UNCHANGED otherVars

\* ---------------------------------------- lib/bot-api: readBotApiPayload
\* A response body is a text of at most MaxBody characters.  "[", "]" and
\* "1" spell the JSON texts 1, [], [1], [[]], ...; "<" occurs in no JSON
\* text (an HTML error page begins with it).
MaxBody == 3
BodyChars == {"[", "]", "1", "<"}
BodyTexts == UNION { [1..n -> BodyChars] : n \in 0..MaxBody }

\* A content-type header as the sequence of its parts; <<>> is the missing
\* header (`?? ""`).
ContentTypes ==
    { <<>>,
      <<"application/json">>,
      <<"application/json", "; charset=utf-8">>,
      <<"text/plain">>,
      <<"text/html", "; charset=utf-8">>,
      <<"application/problem+json">> }

\* contentType.includes(part)
Includes(contentType, part) ==
    \E i \in 1..Len(contentType) : contentType[i] = part

RelayStatuses == TargetStatuses \cup {500}
Responses ==
    [status : RelayStatuses, contentType : ContentTypes, text : BodyTexts]
NoFetch == [status |-> 0, contentType |-> <<>>, text |-> <<>>]

\* JSON values: the number 1, arrays, and the object {message: text}.
JNumber == [kind |-> "number", items |-> <<>>, message |-> <<>>]
JArray(items) == [kind |-> "array", items |-> items, message |-> <<>>]
JMessage(text) == [kind |-> "object", items |-> <<>>, message |-> text]

\* JSON.parse for the grammar  value ::= 1 | [] | [ value ]  : the value
\* that begins at position i of the text and the position after it.
ParseFail == [ok |-> FALSE, value |-> JNumber, next |-> 0]
Parsed(value, next) == [ok |-> TRUE, value |-> value, next |-> next]
RECURSIVE ParseValue(_, _)
ParseValue(text, i) ==
    IF i > Len(text) THEN ParseFail
    ELSE IF text[i] = "1" THEN Parsed(JNumber, i + 1)
    ELSE IF text[i] = "[" THEN
        IF i + 1 <= Len(text) /\ text[i + 1] = "]"
          THEN Parsed(JArray(<<>>), i + 2)
          ELSE LET item == ParseValue(text, i + 1) IN
               IF /\ item.ok
                  /\ item.next <= Len(text)
                  /\ text[item.next] = "]"
                 THEN Parsed(JArray(<<item.value>>), item.next + 1)
                 ELSE ParseFail
    ELSE ParseFail

\* The outcome of an async function: a value, or a rejection.
NoPayload == [state |-> "none", value |-> JNumber]
Value(v) == [state |-> "value", value |-> v]
SyntaxError == [state |-> "threw", value |-> JNumber]

\* response.json(): rejects unless the whole body is one JSON text.
ResponseJson(res) ==
    LET p == ParseValue(res.text, 1) IN
    IF p.ok /\ p.next = Len(res.text) + 1
      THEN Value(p.value)
      ELSE SyntaxError

readErrorMessage(status) ==
    <<"Bot API request failed with status ", ToString(status)>>

readBotApiPayload(res) ==
    IF Includes(res.contentType, "application/json")
      THEN ResponseJson(res)
      ELSE Value(JMessage(IF res.text # <<>>
                            THEN res.text
                            ELSE readErrorMessage(res.status)))

\* NextResponse.json(payload) without the status option: always 200.
relayResponseDefaultStatus(res, value) ==
    [status |-> 200, body |-> value]

\* NextResponse.json(payload, {status: backendResponse.status})
relayResponse(res, value) ==
    [status |-> res.status, body |-> value]
NotRelayed == [status |-> 0, body |-> JNumber]

\* admin-proxy.ts line 115: await readBotApiPayload(backendResponse).
RelayRead ==
    /\ fetched # NoFetch
    /\ relayPayload = NoPayload
    /\ relayPayload' = readBotApiPayload(fetched)
    /\ UNCHANGED <<sessionVars, dashVars, usersVars, fetched, relayed>>

\* Line 116, reached when line 115 did not throw.
RelayRespond ==
    /\ relayPayload.state = "value"
    /\ relayed = NotRelayed
    /\ relayed' = relayResponse(fetched, relayPayload.value)
    /\ UNCHANGED <<sessionVars, dashVars, usersVars, fetched, relayPayload>>

RelayIdle ==
    /\ fetched = NoFetch
    /\ relayPayload = NoPayload
    /\ relayed = NotRelayed

\* ------------------------------------------- the dashboards (browser)
\* The requests loadDashboard / refreshDashboard issue together, the admin
\* list that follows them, and one request of a user action (broadcast).
Panels == {"overview", "users", "presentations", "auth/me"}
DashRequests == Panels \cup {"admins", "broadcast"}

\* A request of the dashboard: not sent, Pending, Threw (fetch rejected) or
\* the status of the response.
Unsent == -2
DashStatuses == {200, 401, 500}
Answers == DashStatuses \cup {Threw}

\* response.ok
Ok(status) == status >= 200 /\ status <= 299

\* handleUnauthorized (components/admin-dashboard): the error is an
\* ApiRequestError with status 401.
handleUnauthorized(status) == status = 401

\* The mount effect: loadDashboard (components/admin-dashboard) and
\* refreshDashboard (app/page, only with a session) send their requests.
DashLoad ==
    /\ view = "dashboard"
    /\ loading = "idle"
    /\ variant = "app/page" => session
    /\ fetching' = [p \in DashRequests |->
                       IF p \in Panels THEN Pending ELSE fetching[p]]
    /\ loading' = "awaiting"
    /\ UNCHANGED <<sessionVars, relayVars, usersVars, variant, view, session, errorShown>>

\* One of the requests sent together is answered.
\* components/admin-dashboard awaits them with Promise.all: the first that
\* fails rejects it, the catch block redirects if that one is a 401 and
\* shows the error otherwise; all succeeding, a SUPERADMIN's admin list is
\* fetched.  app/page awaits them with Promise.allSettled and shows the
\* first error once all are settled: apiRequest throws a plain Error for
\* every status.
DashPanelAnswers(p) ==
    /\ p \in Panels
    /\ fetching[p] = Pending
    /\ \E s \in Answers :
         LET after == [fetching EXCEPT ![p] = s]
             allOk == \A q \in Panels : Ok(after[q])
             allSettled == \A q \in Panels : after[q] # Pending
         IN
         IF loading # "awaiting"
           THEN /\ fetching' = after
                /\ UNCHANGED <<view, loading, errorShown>>
         ELSE IF variant = "components/admin-dashboard"
           THEN IF ~Ok(s)
                  THEN /\ fetching' = after
                       /\ loading' = "rejected"
                       /\ IF handleUnauthorized(s)
                            THEN view' = "login" /\ UNCHANGED errorShown
                            ELSE errorShown' = TRUE /\ UNCHANGED view
                ELSE IF allOk
                  THEN \E superadmin \in BOOLEAN :
                         /\ fetching' = IF superadmin
                                          THEN [after EXCEPT !["admins"] = Pending]
                                          ELSE after
                         /\ loading' = IF superadmin THEN "admins" ELSE "loaded"
                         /\ UNCHANGED <<view, errorShown>>
                ELSE /\ fetching' = after
                     /\ UNCHANGED <<view, loading, errorShown>>
           ELSE /\ fetching' = after
                /\ loading' = IF allSettled THEN "loaded" ELSE loading
                /\ errorShown' = (errorShown \/ (allSettled /\ ~allOk))
                /\ UNCHANGED view
    /\ UNCHANGED <<sessionVars, relayVars, usersVars, variant, session>>

\* components/admin-dashboard, lines 264-287: the admin list is answered.
DashAdminsAnswers ==
    /\ loading = "admins"
    /\ fetching["admins"] = Pending
    /\ \E s \in Answers :
         /\ fetching' = [fetching EXCEPT !["admins"] = s]
         /\ IF ~Ok(s) /\ handleUnauthorized(s)
              THEN view' = "login" /\ loading' = "rejected"
              ELSE view' = view /\ loading' = "loaded"
    /\ UNCHANGED <<sessionVars, relayVars, usersVars, variant, session, errorShown>>

\* The user sends a broadcast.
DashAct ==
    /\ view = "dashboard"
    /\ variant = "app/page" => session
    /\ fetching["broadcast"] = Unsent
    /\ fetching' = [fetching EXCEPT !["broadcast"] = Pending]
    /\ UNCHANGED <<sessionVars, relayVars, usersVars, variant, view, session, loading,
                   errorShown>>

\* The catch block of the action's handler: components/admin-dashboard
\* redirects on a 401, app/page shows every error as a toast.
DashActAnswers ==
    /\ fetching["broadcast"] = Pending
    /\ \E s \in Answers :
         /\ fetching' = [fetching EXCEPT !["broadcast"] = s]
         /\ IF Ok(s)
              THEN UNCHANGED <<view, errorShown>>
            ELSE IF variant = "components/admin-dashboard"
                    /\ handleUnauthorized(s)
              THEN view' = "login" /\ UNCHANGED errorShown
            ELSE errorShown' = TRUE /\ UNCHANGED view
    /\ UNCHANGED <<sessionVars, relayVars, usersVars, variant, session, loading>>

\* app/page, lines 917-925: without an access token in `session` the
\* effect replaces the route by /login.
PageRedirectEffect ==
    /\ variant = "app/page"
    /\ ~session
    /\ view = "dashboard"
    /\ view' = "login"
    /\ UNCHANGED <<sessionVars, relayVars, usersVars, variant, session, fetching,
                   loading, errorShown>>

\* handleLogout, the user's click: whatever the logout request's outcome,
\* router.replace("/login"); app/page also drops its session.
DashLogout ==
    /\ view = "dashboard"
    /\ view' = "login"
    /\ session' = (variant # "app/page" /\ session)
    /\ UNCHANGED <<sessionVars, relayVars, usersVars, variant, fetching, loading,
                   errorShown>>

DashIdle ==
    /\ variant = "components/admin-dashboard"
    /\ view = "dashboard"
    /\ session = TRUE
    /\ fetching = [p \in DashRequests |-> Unsent]
    /\ loading = "idle"
    /\ errorShown = FALSE

\* ------------------------------------------- app/page: the users list
NullCursor == 0
EMPTY_CONNECTION_PAGE_INFO == [hasNextPage |-> FALSE, endCursor |-> NullCursor]

\* The backend's answer to GET /admin/users?first=..&after=..: a connection
\* of NumPages pages of one row each, the row and the end cursor of page k
\* both written k.
UsersConnection(after) ==
    [nodes |-> <<after + 1>>,
     totalCount |-> NumPages,
     pageInfo |-> [hasNextPage |-> after + 1 < NumPages,
                   endCursor |-> after + 1]]

\* previous.slice(0, n)
slice(history, n) == SubSeq(history, 1, IF n < Len(history) THEN n ELSE Len(history))

\* usersAfterHistory[i - 1] ?? null, the array counted from 1 here.
afterOf(history, i) ==
    IF i \in 1..Len(history) THEN history[i] ELSE NullCursor

\* requestVersion === usersRequestVersionRef.current
requestVersionIsCurrentAlways(v) == TRUE
requestVersionIsCurrent(v) == v = usersRequestVersionRef

\* fetchUsersPage up to its await: the loading flag, the new version, the
\* request on its way.
fetchUsersPage(page, after) ==
    /\ usersRequestVersionRef < MaxFetch
    /\ isUsersLoading' = TRUE
    /\ usersRequestVersionRef' = usersRequestVersionRef + 1
    /\ usersRequests' = Append(usersRequests,
           [page |-> page, after |-> after, state |-> "pending"])

\* fetchUsersFirstPage: the effect on entering /users, a new search, a new
\* page size.
UsersFirstPage ==
    /\ usersPage' = 1
    /\ usersAfterHistory' = <<NullCursor>>
    /\ usersPageInfo' = EMPTY_CONNECTION_PAGE_INFO
    /\ fetchUsersPage(1, NullCursor)
    /\ UNCHANGED <<sessionVars, relayVars, dashVars, users, usersTotalCount>>

\* fetchUsersCurrentPage: part of refreshDashboard.
UsersCurrentPage ==
    /\ fetchUsersPage(usersPage, afterOf(usersAfterHistory, usersPage))
    /\ UNCHANGED <<sessionVars, relayVars, dashVars, users, usersTotalCount,
                   usersPage, usersAfterHistory, usersPageInfo>>

\* fetchUsersNextPage, behind the Next button (disabled while loading).
UsersNextPage ==
    /\ ~isUsersLoading
    /\ usersPageInfo.hasNextPage
    /\ usersPageInfo.endCursor # NullCursor
    /\ usersAfterHistory' =
           Append(slice(usersAfterHistory, usersPage), usersPageInfo.endCursor)
    /\ fetchUsersPage(usersPage + 1, usersPageInfo.endCursor)
    /\ UNCHANGED <<sessionVars, relayVars, dashVars, users, usersTotalCount,
                   usersPage, usersPageInfo>>

\* fetchUsersPreviousPage, behind the Prev button (disabled while loading).
UsersPreviousPage ==
    /\ ~isUsersLoading
    /\ usersPage > 1
    /\ usersAfterHistory' = slice(usersAfterHistory, usersPage - 1)
    /\ fetchUsersPage(usersPage - 1, afterOf(usersAfterHistory, usersPage - 1))
    /\ UNCHANGED <<sessionVars, relayVars, dashVars, users, usersTotalCount,
                   usersPage, usersPageInfo>>

\* fetchUsersPage from its await on, apiRequest having resolved.
UsersPageResolves(v) ==
    /\ v \in 1..Len(usersRequests)
    /\ usersRequests[v].state = "pending"
    /\ usersRequests' = [usersRequests EXCEPT ![v].state = "resolved"]
    /\ LET data == UsersConnection(usersRequests[v].after)
       IN IF requestVersionIsCurrent(v)
          THEN /\ users' = data.nodes
               /\ usersTotalCount' = data.totalCount
               /\ usersPageInfo' = data.pageInfo
               /\ usersPage' = (IF usersRequests[v].page > 1
                                THEN usersRequests[v].page ELSE 1)
               /\ isUsersLoading' = FALSE
          ELSE UNCHANGED <<users, usersTotalCount, usersPageInfo, usersPage,
                           isUsersLoading>>
    /\ UNCHANGED <<sessionVars, relayVars, dashVars, usersAfterHistory,
                   usersRequestVersionRef>>

\* fetchUsersPage from its await on, apiRequest having thrown (no session,
\* a status that is not ok, a failed fetch): only the finally block runs.
UsersPageRejects(v) ==
    /\ v \in 1..Len(usersRequests)
    /\ usersRequests[v].state = "pending"
    /\ usersRequests' = [usersRequests EXCEPT ![v].state = "rejected"]
    /\ isUsersLoading' = (IF requestVersionIsCurrent(v) THEN FALSE
                          ELSE isUsersLoading)
    /\ UNCHANGED <<sessionVars, relayVars, dashVars, users, usersTotalCount,
                   usersPage, usersAfterHistory, usersPageInfo,
                   usersRequestVersionRef>>

\* The state the useState and useRef calls of app/page start from.
UsersIdle ==
    /\ users = <<>>
    /\ usersTotalCount = 0
    /\ usersPage = 1
    /\ usersAfterHistory = <<NullCursor>>
    /\ usersPageInfo = EMPTY_CONNECTION_PAGE_INFO
    /\ isUsersLoading = TRUE
    /\ usersRequestVersionRef = 0
    /\ usersRequests = <<>>

\* ------------------------------------------------------- specification
Init ==
    /\ jar = NoTokens
    /\ issued = 0
    /\ backendRefresh = NoToken
    /\ pc = [r \in Reqs |-> "idle"]
    /\ route = [r \in Reqs |-> ""]
    /\ requestBody = [r \in Reqs |-> "none"]
    /\ stored = [r \in Reqs |-> NoTokens]
    /\ activeTokens = [r \in Reqs |-> NoTokens]
    /\ refreshedTokens = [r \in Reqs |-> NoTokens]
    /\ calls = [r \in Reqs |-> <<>>]
    /\ response = [r \in Reqs |-> NoResponse]
    /\ RelayIdle
    /\ DashIdle
    /\ UsersIdle

\* One browser tab issuing one request after the other, to any handler.
Tab == { r \in Reqs : \A q \in Reqs : r <= q }

Next ==
    \/ \E r \in Tab : ProxyBegin(r)
    \/ \E r \in Tab : ProxyRefreshReturns(r)
    \/ \E r \in Tab : ProxyTargetReturns(r)
    \/ \E r \in Tab : ProxyRetryRefreshReturns(r)
    \/ \E r \in Tab : ProxyRetryReturns(r)
    \/ \E r \in Tab : DirectBegin(r)
    \/ \E r \in Tab : DirectReturns(r)
    \/ \E r \in Tab : LoginBegin(r)
    \/ \E r \in Tab : LoginReturns(r)
    \/ \E r \in Tab : LogoutBegin(r)
    \/ \E r \in Tab : LogoutReturns(r)
    \/ \E r \in Tab : Deliver(r)
    \/ \E r \in Tab : NextRequest(r)
    \/ JarDropCookie

Spec == Init /\ [][Next]_vars

\* MaxReq requests of one browser in flight at the same time (the
\* dashboard's panels load concurrently), through the proxy, login and
\* logout, their backend calls and their responses interleaved in every
\* order.  The browser holds the session of an earlier login, a state Spec
\* reaches.  The proxied handlers differ in nothing but the path, so one
\* stands for them.
RaceRoutes == { rt \in ProxyRoutes : rt.name = "GET auth/me" }

\* The requests are numbered in their order of arrival.
Arrives(r) == \A q \in Reqs : q < r => pc[q] # "idle"

NextRace ==
    \/ \E r \in Reqs : Arrives(r) /\ ProxyBeginOn(r, RaceRoutes)
    \/ \E r \in Reqs : ProxyRefreshReturns(r)
    \/ \E r \in Reqs : ProxyTargetReturns(r)
    \/ \E r \in Reqs : ProxyRetryRefreshReturns(r)
    \/ \E r \in Reqs : ProxyRetryReturns(r)
    \/ \E r \in Reqs : Arrives(r) /\ LoginBegin(r)
    \/ \E r \in Reqs : LoginReturns(r)
    \/ \E r \in Reqs : Arrives(r) /\ LogoutBegin(r)
    \/ \E r \in Reqs : LogoutReturns(r)
    \/ \E r \in Reqs : Deliver(r)
    \/ JarDropCookie

InitRace ==
    /\ jar = PairOf(1)
    /\ issued = 1
    /\ backendRefresh = RefreshOf(1)
    /\ pc = [r \in Reqs |-> "idle"]
    /\ route = [r \in Reqs |-> ""]
    /\ requestBody = [r \in Reqs |-> "none"]
    /\ stored = [r \in Reqs |-> NoTokens]
    /\ activeTokens = [r \in Reqs |-> NoTokens]
    /\ refreshedTokens = [r \in Reqs |-> NoTokens]
    /\ calls = [r \in Reqs |-> <<>>]
    /\ response = [r \in Reqs |-> NoResponse]
    /\ RelayIdle
    /\ DashIdle
    /\ UsersIdle

SpecRace == InitRace /\ [][NextRace]_vars

\* The relay of one backend response, whatever its status, content type and
\* body, outside any session.
InitRelay ==
    /\ jar = NoTokens
    /\ issued = 0
    /\ backendRefresh = NoToken
    /\ pc = [r \in Reqs |-> "idle"]
    /\ route = [r \in Reqs |-> ""]
    /\ requestBody = [r \in Reqs |-> "none"]
    /\ stored = [r \in Reqs |-> NoTokens]
    /\ activeTokens = [r \in Reqs |-> NoTokens]
    /\ refreshedTokens = [r \in Reqs |-> NoTokens]
    /\ calls = [r \in Reqs |-> <<>>]
    /\ response = [r \in Reqs |-> NoResponse]
    /\ fetched \in Responses
    /\ relayPayload = NoPayload
    /\ relayed = NotRelayed
    /\ DashIdle
    /\ UsersIdle

NextRelay ==
    \/ RelayRead
    \/ RelayRespond

SpecRelay == InitRelay /\ [][NextRelay]_vars

\* Either dashboard, mounted in the browser; app/page with or without a
\* session in localStorage.
InitDash ==
    /\ jar = NoTokens
    /\ issued = 0
    /\ backendRefresh = NoToken
    /\ pc = [r \in Reqs |-> "idle"]
    /\ route = [r \in Reqs |-> ""]
    /\ requestBody = [r \in Reqs |-> "none"]
    /\ stored = [r \in Reqs |-> NoTokens]
    /\ activeTokens = [r \in Reqs |-> NoTokens]
    /\ refreshedTokens = [r \in Reqs |-> NoTokens]
    /\ calls = [r \in Reqs |-> <<>>]
    /\ response = [r \in Reqs |-> NoResponse]
    /\ RelayIdle
    /\ variant \in {"components/admin-dashboard", "app/page"}
    /\ view = "dashboard"
    /\ session \in (IF variant = "app/page" THEN BOOLEAN ELSE {TRUE})
    /\ fetching = [p \in DashRequests |-> Unsent]
    /\ loading = "idle"
    /\ errorShown = FALSE
    /\ UsersIdle

NextDash ==
    \/ DashLoad
    \/ \E p \in Panels : DashPanelAnswers(p)
    \/ DashAdminsAnswers
    \/ DashAct
    \/ DashActAnswers
    \/ PageRedirectEffect
    \/ DashLogout

\* Every request the dashboard sent is answered or fails, and React runs
\* the effects and continuations that are due; the user's clicks (DashAct,
\* DashLogout) may never come.
SpecDash ==
    /\ InitDash
    /\ [][NextDash]_vars
    /\ WF_vars(DashLoad)
    /\ \A p \in Panels : WF_vars(DashPanelAnswers(p))
    /\ WF_vars(DashAdminsAnswers)
    /\ WF_vars(DashActAnswers)
    /\ WF_vars(PageRedirectEffect)

\* The users list of app/page, from the first render on: the user and the
\* effects call the four fetchers in any order, each request is answered
\* or fails at any later time.
InitUsers ==
    /\ jar = NoTokens
    /\ issued = 0
    /\ backendRefresh = NoToken
    /\ pc = [r \in Reqs |-> "idle"]
    /\ route = [r \in Reqs |-> ""]
    /\ requestBody = [r \in Reqs |-> "none"]
    /\ stored = [r \in Reqs |-> NoTokens]
    /\ activeTokens = [r \in Reqs |-> NoTokens]
    /\ refreshedTokens = [r \in Reqs |-> NoTokens]
    /\ calls = [r \in Reqs |-> <<>>]
    /\ response = [r \in Reqs |-> NoResponse]
    /\ RelayIdle
    /\ DashIdle
    /\ users = <<>>
    /\ usersTotalCount = 0
    /\ usersPage = 1
    /\ usersAfterHistory = <<NullCursor>>
    /\ usersPageInfo = EMPTY_CONNECTION_PAGE_INFO
    /\ isUsersLoading = TRUE
    /\ usersRequestVersionRef = 0
    /\ usersRequests = <<>>

NextUsers ==
    \/ UsersFirstPage
    \/ UsersCurrentPage
    \/ UsersNextPage
    \/ UsersPreviousPage
    \/ \E v \in 1..MaxFetch : UsersPageResolves(v)
    \/ \E v \in 1..MaxFetch : UsersPageRejects(v)

SpecUsers == InitUsers /\ [][NextUsers]_vars

\* ================================================================ claims
\* What the claims talk about, read off a request's state.
\* The handler returned a response (an exception escaping it leaves none).
Returned(r) == pc[r] \in {"done", "delivered"} /\ response[r] # NoResponse
MalformedBody(r) == response[r].body.message = "Request body must be valid JSON."
\* proxyAuthedAdminRequest was called for the request.
ProxyCalled(r) ==
    pc[r] # "idle" /\ route[r] \in ProxyRouteNames /\ ~MalformedBody(r)
BothStored(r) ==
    stored[r].accessToken # NoToken /\ stored[r].refreshToken # NoToken
OnlyRefreshStored(r) ==
    stored[r].accessToken = NoToken /\ stored[r].refreshToken # NoToken
Endpoints(r) == [i \in 1..Len(calls[r]) |-> calls[r][i].endpoint]
CallsTo(r, endpoint) ==
    Cardinality({ i \in 1..Len(calls[r]) : calls[r][i].endpoint = endpoint })
\* The i-th call of the request was a refresh the backend accepted.
Accepted(r, i) ==
    /\ i <= Len(calls[r])
    /\ calls[r][i].endpoint = "refresh"
    /\ calls[r][i].status >= 200 /\ calls[r][i].status <= 299
    /\ calls[r][i].got.accessToken # NoToken
    /\ calls[r][i].got.refreshToken # NoToken
\* The i-th call of the request was answered with this status.
Answered(r, i, status) == i <= Len(calls[r]) /\ calls[r][i].status = status
ClearsCookies(resp) ==
    /\ resp.cookies.access.op = "expire" /\ resp.cookies.access.value = NoToken
    /\ resp.cookies.refresh.op = "expire" /\ resp.cookies.refresh.value = NoToken
SetsCookies(resp, tokens) ==
    /\ resp.cookies.access.op = "set"
    /\ resp.cookies.access.value = tokens.accessToken
    /\ resp.cookies.refresh.op = "set"
    /\ resp.cookies.refresh.value = tokens.refreshToken

\* C1: a proxy call made with neither token cookie present returns 401 and
\* issues no backend call, neither to the refresh nor to the target endpoint.
C1_NoTokensUnauthorized ==
    \A r \in Reqs :
        (ProxyCalled(r) /\ stored[r] = NoTokens)
            => /\ Returned(r)
               /\ response[r].status = 401
               /\ calls[r] = <<>>

C1_Witness ==
    \E r \in Reqs :
        /\ ProxyCalled(r) /\ stored[r] = NoTokens /\ jar = NoTokens
        /\ pc[r] = "done" /\ response[r].status = 401

TargetIndexes(r) == { i \in 1..Len(calls[r]) : calls[r][i].endpoint = "target" }
\* The backend answered 401 to the original and to the retried target call.
BothTargets401(r) ==
    /\ Cardinality(TargetIndexes(r)) >= 2
    /\ \E i, j \in TargetIndexes(r) :
         /\ i < j
         /\ \A k \in TargetIndexes(r) : k >= i
         /\ \A k \in TargetIndexes(r) : k > i => k >= j
         /\ calls[r][i].status = 401
         /\ calls[r][j].status = 401

RefreshRejected(r, i) ==
    /\ calls[r][i].endpoint = "refresh"
    /\ calls[r][i].status \notin {Pending, Threw}
    /\ ~(calls[r][i].status >= 200 /\ calls[r][i].status <= 299)

C5_RefreshFailureClears ==
    \A r \in Reqs :
        (ProxyCalled(r) /\ \E i \in 1..Len(calls[r]) : RefreshRejected(r, i))
            => /\ Returned(r)
               /\ response[r].status = 401
               /\ ClearsCookies(response[r])

C5_Witness ==
    \E r \in Reqs :
        /\ ProxyCalled(r) /\ BothStored(r) /\ pc[r] = "done"
        /\ Len(calls[r]) = 2 /\ RefreshRejected(r, 2) /\ calls[r][2].status = 500

\* C6: token pairing.  Every response of login, proxy and logout leaves the
\* cookies alone, expires both, or sets both to the two tokens of one and the
\* same backend token response; and whatever the order in which the responses
\* of concurrent requests reach the browser, the jar never holds an access
\* token next to the refresh token of another pair.
PairedWrite(cookies) ==
    \/ cookies = NoCookies
    \/ /\ cookies.access.op = "expire" /\ cookies.access.value = NoToken
       /\ cookies.refresh.op = "expire" /\ cookies.refresh.value = NoToken
    \/ /\ cookies.access.op = "set" /\ cookies.refresh.op = "set"
       /\ IssueOf(cookies.access.value) >= 1
       /\ cookies.access.value = AccessOf(IssueOf(cookies.access.value))
       /\ cookies.refresh.value = RefreshOf(IssueOf(cookies.access.value))

PairedJar ==
    (jar.accessToken # NoToken /\ jar.refreshToken # NoToken)
        => jar = PairOf(IssueOf(jar.accessToken))

C6_TokenPairing ==
    /\ \A r \in Reqs : PairedWrite(response[r].cookies)
    /\ PairedJar

\* Two concurrent requests each rotated the tokens (to different pairs) and
\* both responses were applied, the older pair last.
C6_Witness ==
    \E r, q \in Reqs :
        /\ r # q /\ pc[r] = "delivered" /\ pc[q] = "delivered"
        /\ \E n, m \in 1..MaxIssue :
             /\ n < m
             /\ SetsCookies(response[r], PairOf(n))
             /\ SetsCookies(response[q], PairOf(m))
             /\ jar = PairOf(n)

\* C7: within one inbound request, when the retried target call is issued
\* the token pair of the completed refresh has been persisted to the token
\* store (written to the response's cookies, or held by the jar).
C7_PersistedBeforeRetry ==
    \A r \in Reqs :
        (ProxyCalled(r) /\ pc[r] = "retry")
            => \/ SetsCookies(response[r], refreshedTokens[r])
               \/ jar = refreshedTokens[r]

\* C8: a proxy call aborted by a transport failure of the target call issued
\* after a successful refresh does not leave the token store referencing a
\* refresh token which that refresh superseded.
AbortedAfterRefresh(r) ==
    /\ ProxyCalled(r) /\ pc[r] = "delivered" /\ response[r] = NoResponse
    /\ calls[r][Len(calls[r])].endpoint = "target"
    /\ calls[r][Len(calls[r])].status = Threw
    /\ \E i \in 1..Len(calls[r]) : Accepted(r, i)

C8_AbortKeepsNoSupersededToken ==
    \A r \in Reqs :
        AbortedAfterRefresh(r)
            => \A i \in 1..Len(calls[r]) :
                   Accepted(r, i) => jar.refreshToken # calls[r][i].sent

\* C9: a request with empty cookies (and a well-formed body) to any handler
\* fronting a bearer-protected backend endpoint is answered 401 at once,
\* without a backend call.
C9_ProtectedRoutesNeedSession ==
    [][ \A r \in Reqs :
          ( /\ pc[r] = "idle" /\ pc'[r] # "idle"
            /\ route'[r] \in ProtectedRouteNames
            /\ jar = NoTokens
            /\ response'[r].body.message # "Request body must be valid JSON." )
              => /\ pc'[r] = "done"
                 /\ response'[r].status = 401
                 /\ calls'[r] = <<>> ]_vars

\* C10: every 401 response returned to the browser, by any handler on any
\* path, clears both session cookies.
C10_Every401ClearsCookies ==
    \A r \in Reqs :
        (Returned(r) /\ response[r].status = 401) => ClearsCookies(response[r])

\* C11: on the four handlers that take a body (login POST, admins POST,
\* admins/:id PATCH, broadcast POST), a request whose body is not JSON is
\* answered 400 "Request body must be valid JSON." and no backend call is
\* made for it.
C11_MalformedBodyRejected ==
    \A r \in Reqs :
        (/\ pc[r] # "idle"
         /\ route[r] \in {"POST auth/login", "POST admins", "PATCH admins/:id",
                          "POST broadcast"}
         /\ requestBody[r] = "malformed")
        => /\ Returned(r)
           /\ response[r].status = 400
           /\ response[r].body.message = "Request body must be valid JSON."
           /\ calls[r] = <<>>

C11_Witness ==
    \E r \in Reqs :
        /\ route[r] = "POST broadcast"
        /\ requestBody[r] = "malformed"
        /\ pc[r] = "delivered"
        /\ response[r].status = 400

\* The backend answered the login call of request r with a 2xx status.
LoginAnswered2xx(r) ==
    /\ route[r] = "POST auth/login"
    /\ Len(calls[r]) = 1
    /\ calls[r][1].status >= 200 /\ calls[r][1].status <= 299

\* C12: a login the backend answers 2xx with a non-empty accessToken and a
\* non-empty refreshToken returns 200, sets admin_access_token to the access
\* token with maxAge 900 and admin_refresh_token to the refresh token with
\* maxAge 604800, and its body is {success, admin} without any token.
C12_LoginSuccess ==
    \A r \in Reqs :
        (/\ LoginAnswered2xx(r)
         /\ calls[r][1].got.accessToken # NoToken
         /\ calls[r][1].got.refreshToken # NoToken)
        => /\ Returned(r)
           /\ response[r].status = 200
           /\ response[r].cookies.access =
                  [op |-> "set", value |-> calls[r][1].got.accessToken,
                   maxAge |-> 900]
           /\ response[r].cookies.refresh =
                  [op |-> "set", value |-> calls[r][1].got.refreshToken,
                   maxAge |-> 604800]
           /\ response[r].body =
                  [message |-> "success", data |-> 0, tokens |-> NoTokens]

C12_Witness ==
    \E r \in Reqs :
        /\ LoginAnswered2xx(r)
        /\ calls[r][1].got = PairOf(1)
        /\ pc[r] = "delivered"
        /\ jar = PairOf(1)

AcceptedIndexes(r) == { i \in 1..Len(calls[r]) : Accepted(r, i) }
LastAccepted(r) ==
    CHOOSE i \in AcceptedIndexes(r) : \A j \in AcceptedIndexes(r) : j <= i

\* C13 as stated: whenever tokens were rotated during a proxy call, the
\* response of the call sets both cookies to the most recent pair.
C13_Original ==
    \A r \in Reqs :
        (ProxyCalled(r) /\ Returned(r) /\ AcceptedIndexes(r) # {})
            => SetsCookies(response[r], calls[r][LastAccepted(r)].got)

\* C13 (amended): tokens rotated during a proxy call are persisted by its
\* response unless the response is a 401.  A response with another status
\* sets both cookies to the pair of the last accepted refresh; a 401 (the
\* last target call answered 401, or a later refresh of the call failed)
\* clears both cookies and the rotated pair is dropped.
C13_RotatedTokensPersisted ==
    \A r \in Reqs :
        (ProxyCalled(r) /\ Returned(r) /\ AcceptedIndexes(r) # {})
            => IF response[r].status = 401
                 THEN ClearsCookies(response[r])
                 ELSE SetsCookies(response[r], calls[r][LastAccepted(r)].got)

C13_Witness ==
    \E r \in Reqs :
        /\ ProxyCalled(r) /\ pc[r] = "delivered"
        /\ Cardinality(AcceptedIndexes(r)) = 2
        /\ response[r].status = 200
        /\ jar = calls[r][LastAccepted(r)].got

\* C14 as stated: a proxy call makes at most 2 target calls and at most 1
\* refresh call, at most 3 backend calls in all.
C14_Original ==
    \A r \in Reqs :
        ProxyCalled(r)
            => /\ CallsTo(r, "target") <= 2
               /\ CallsTo(r, "refresh") <= 1
               /\ Len(calls[r]) <= 3

\* C14 (amended): a proxy call makes at most 2 target calls and at most 2
\* refresh calls, at most 4 backend calls in all; the second refresh call
\* only happens when the call began with a proactive refresh, so a call
\* that found both tokens stored makes at most 1 refresh call and at most 3
\* backend calls.
C14_CallBounds ==
    \A r \in Reqs :
        ProxyCalled(r)
            => /\ CallsTo(r, "target") <= 2
               /\ CallsTo(r, "refresh") <= 2
               /\ Len(calls[r]) <= 4
               /\ CallsTo(r, "target") + CallsTo(r, "refresh") = Len(calls[r])
               /\ BothStored(r)
                    => CallsTo(r, "refresh") <= 1 /\ Len(calls[r]) <= 3

C14_Witness ==
    \E r \in Reqs :
        /\ ProxyCalled(r) /\ Returned(r)
        /\ Endpoints(r) = <<"refresh", "target", "refresh", "target">>
        /\ response[r].status = 403

\* C17: both tokens stored and the first target call answered with a
\* status other than 401, the proxy makes no refresh call and no retry: the
\* call consists of that one backend call, whose status it returns.
C17_Non401NoRefresh ==
    \A r \in Reqs :
        (/\ ProxyCalled(r) /\ BothStored(r)
         /\ Len(calls[r]) >= 1
         /\ calls[r][1].status \notin {Pending, Threw, 401})
        => /\ Returned(r)
           /\ Endpoints(r) = <<"target">>
           /\ response[r].status = calls[r][1].status
           /\ response[r].body.data = 1

C17_Witness ==
    \E r \in Reqs :
        /\ ProxyCalled(r) /\ BothStored(r)
        /\ pc[r] = "done"
        /\ calls[r][1].status = 403
        /\ response[r].status = 403

\* The body of the backend response is the JSON text of value v.
BodyIs(res, v) == ResponseJson(res) = Value(v)

C20_NeverThrows == relayPayload.state # "threw"

\* The i-th backend call of request r is a refresh call sending token t.
RefreshWith(r, i, t) ==
    /\ i \in 1..Len(calls[r])
    /\ calls[r][i].endpoint = "refresh"
    /\ calls[r][i].sent = t

\* The backend answered the refresh by its single-use rule: the new pair,
\* or 401 (no failure of the backend or of the transport).
ByTheRule(r, i) == Accepted(r, i) \/ calls[r][i].status = 401

\* No request other than r and q made the backend change its refresh token
\* (no login, no accepted refresh, no logout of theirs).
Untouched(r, q) ==
    \A p \in Reqs \ {r, q} : \A k \in 1..Len(calls[p]) :
        ~(/\ calls[p][k].endpoint \in {"login", "refresh", "logout"}
          /\ calls[p][k].status >= 200 /\ calls[p][k].status <= 299)

LastTarget(r) ==
    CHOOSE i \in TargetIndexes(r) : \A j \in TargetIndexes(r) : j <= i

\* A request waiting for the backend can go on, whatever the others do.
CanGoOn(r) ==
    /\ pc[r] = "refresh" => ENABLED ProxyRefreshReturns(r)
    /\ pc[r] = "target" => ENABLED ProxyTargetReturns(r)
    /\ pc[r] = "retry_refresh" => ENABLED ProxyRetryRefreshReturns(r)
    /\ pc[r] = "retry" => ENABLED ProxyRetryReturns(r)

\* C19: two concurrent proxy requests read the same stored refresh token
\* and both send it to the backend's refresh endpoint, whose tokens are
\* single-use.  Never are both refreshes accepted; when the backend answers
\* both by its rule and no third request interferes, exactly one is
\* accepted.  The request whose refresh is accepted goes on to its target
\* call with the new access token and returns with the status of its last
\* target call; the request whose refresh is answered 401 makes no further
\* call and returns 401, clearing the cookies.  Neither waits for the other.
C19_RefreshRace ==
    \A r, q \in Reqs : \A i \in 1..Len(calls[r]), j \in 1..Len(calls[q]) :
        (/\ r # q
         /\ ProxyCalled(r) /\ ProxyCalled(q)
         /\ stored[r].refreshToken = stored[q].refreshToken
         /\ RefreshWith(r, i, stored[r].refreshToken)
         /\ RefreshWith(q, j, stored[q].refreshToken))
        => /\ ~(Accepted(r, i) /\ Accepted(q, j))
           /\ (ByTheRule(r, i) /\ ByTheRule(q, j) /\ Untouched(r, q))
                 => (Accepted(r, i) \/ Accepted(q, j))
           /\ Accepted(r, i)
                 => /\ Len(calls[r]) > i
                    /\ calls[r][i + 1].endpoint = "target"
                    /\ calls[r][i + 1].bearer = calls[r][i].got.accessToken
                    /\ Returned(r) =>
                          response[r].status = calls[r][LastTarget(r)].status
           /\ calls[r][i].status = 401
                 => /\ Returned(r)
                    /\ Len(calls[r]) = i
                    /\ response[r].status = 401
                    /\ ClearsCookies(response[r])
           /\ CanGoOn(r)

C19_Witness ==
    \E r, q \in Reqs :
        /\ r # q
        /\ ProxyCalled(r) /\ ProxyCalled(q)
        /\ BothStored(r) /\ stored[q] = stored[r]
        /\ RefreshWith(r, 2, stored[r].refreshToken) /\ Accepted(r, 2)
        /\ RefreshWith(q, 2, stored[r].refreshToken)
        /\ calls[q][2].status = 401
        /\ pc[r] = "done" /\ response[r].status = 200
        /\ pc[q] = "done" /\ response[q].status = 401

\* C18: in either dashboard, whenever a request it issued is answered with
\* status 401, the browser is eventually redirected to the login view.
C18_Redirect401 ==
    \A p \in DashRequests : (fetching[p] = 401) ~> (view = "login")

\* C21: logout destroys the session.  Whatever tokens are stored and
\* whatever the backend logout call does (2xx, non-2xx, transport failure,
\* or no call at all without an access token), the logout handler returns
\* {success: true} and overwrites both token cookies with an empty, already
\* expired value.
C21_LogoutClears ==
    \A r \in Reqs :
        (route[r] = "POST auth/logout" /\ pc[r] \notin {"idle", "logout"})
            => /\ Returned(r)
               /\ response[r].status = 200
               /\ response[r].body.message = "success"
               /\ ClearsCookies(response[r])
               /\ Len(calls[r]) = (IF stored[r].accessToken # NoToken
                                     THEN 1 ELSE 0)

C21_Witness ==
    \E r \in Reqs :
        /\ route[r] = "POST auth/logout"
        /\ BothStored(r)
        /\ calls[r][1].status = Threw
        /\ pc[r] = "delivered"
        /\ jar = NoTokens

\* C22 as stated: the 401 of a proxy call made with neither token carries
\* no mutation of the token cookies.
C22_Original ==
    \A r \in Reqs :
        (ProxyCalled(r) /\ stored[r] = NoTokens /\ Returned(r))
            => response[r].cookies = NoCookies

\* C22 (amended): a proxy call made with neither token makes no backend
\* call and leaves the backend's session alone, but its 401 response does
\* overwrite both token cookies with an empty, already expired value; the
\* cookies being absent already, the jar of a browser with no other request
\* in flight is empty after the response as it was before.
C22_NoTokensNoSideEffect ==
    \A r \in Reqs :
        (ProxyCalled(r) /\ stored[r] = NoTokens /\ Returned(r))
            => /\ ClearsCookies(response[r])
               /\ response[r].status = 401
               /\ calls[r] = <<>>
               /\ jar = NoTokens

C22_Witness ==
    \E r \in Reqs :
        /\ ProxyCalled(r) /\ stored[r] = NoTokens
        /\ pc[r] = "delivered"
        /\ ClearsCookies(response[r])
        /\ backendRefresh # NoToken

\* C23: second rotation after a proactive refresh.  Only a refresh token
\* stored, the proactive refresh accepted and the target call made with the
\* new access token answered 401, the proxy refreshes once more, sending
\* the refresh token the first refresh returned (not the stored one), and
\* the retried target call carries the access token of the second refresh.
C23_SecondRotation ==
    \A r \in Reqs :
        (/\ ProxyCalled(r) /\ OnlyRefreshStored(r)
         /\ Accepted(r, 1)
         /\ Answered(r, 2, 401))
        => /\ Len(calls[r]) >= 3
           /\ calls[r][2].endpoint = "target"
           /\ calls[r][2].bearer = calls[r][1].got.accessToken
           /\ calls[r][3].endpoint = "refresh"
           /\ calls[r][3].sent = calls[r][1].got.refreshToken
           /\ calls[r][3].sent # stored[r].refreshToken
           /\ Accepted(r, 3)
                => /\ Len(calls[r]) = 4
                   /\ calls[r][4].endpoint = "target"
                   /\ calls[r][4].bearer = calls[r][3].got.accessToken

C23_Witness ==
    \E r \in Reqs :
        /\ ProxyCalled(r) /\ OnlyRefreshStored(r)
        /\ Accepted(r, 1) /\ Answered(r, 2, 401) /\ Accepted(r, 3)
        /\ Answered(r, 4, 200)
        /\ pc[r] = "done"

\* C24: a proxy call that finds the access-token cookie but no
\* refresh-token cookie returns 401 and clears both cookies without any
\* backend call: the access token is not sent.
C24_OnlyAccessUnauthorized ==
    \A r \in Reqs :
        (/\ ProxyCalled(r)
         /\ stored[r].accessToken # NoToken
         /\ stored[r].refreshToken = NoToken)
        => /\ Returned(r)
           /\ response[r].status = 401
           /\ ClearsCookies(response[r])
           /\ calls[r] = <<>>

C24_Witness ==
    \E r \in Reqs :
        /\ ProxyCalled(r)
        /\ stored[r].accessToken # NoToken
        /\ stored[r].refreshToken = NoToken
        /\ pc[r] = "delivered"
        /\ jar = NoTokens

\* The i-th call of r is a refresh answered 2xx with a payload that lacks
\* one of the tokens.
IncompleteRefresh(r, i) ==
    /\ calls[r][i].endpoint = "refresh"
    /\ calls[r][i].status >= 200 /\ calls[r][i].status <= 299
    /\ \/ calls[r][i].got.accessToken = NoToken
       \/ calls[r][i].got.refreshToken = NoToken

C26_NoRotationNoCookies ==
    \A r \in Reqs :
        (/\ ProxyCalled(r) /\ Returned(r)
         /\ AcceptedIndexes(r) = {}
         /\ response[r].status # 401)
        => /\ response[r].cookies = NoCookies
           /\ Endpoints(r) = <<"target">>
           /\ response[r].status = calls[r][1].status

C26_Witness ==
    \E r \in Reqs :
        /\ ProxyCalled(r) /\ pc[r] = "delivered"
        /\ AcceptedIndexes(r) = {}
        /\ response[r].status = 403
        /\ jar = stored[r]

\* C28: in the proxied handlers that take a body (admins POST, admins/:id
\* PATCH) the JSON check comes before the session check: a malformed body
\* is answered 400 with or without stored tokens, the token cookies are
\* neither read nor written, and no backend call (no refresh) is made.
C28_BodyCheckFirst ==
    \A r \in Reqs :
        (/\ pc[r] # "idle"
         /\ route[r] \in {"POST admins", "PATCH admins/:id"}
         /\ requestBody[r] = "malformed")
        => /\ Returned(r)
           /\ response[r].status = 400
           /\ response[r].cookies = NoCookies
           /\ stored[r] = NoTokens
           /\ calls[r] = <<>>

C28_Witness ==
    \E r \in Reqs :
        /\ route[r] = "PATCH admins/:id"
        /\ requestBody[r] = "malformed"
        /\ jar = NoTokens
        /\ pc[r] = "done"
        /\ response[r].status = 400

\* Requests r and q raced for the same stored refresh token: r's refresh
\* was accepted, q's was answered 401.
RaceWon(r, q) ==
    /\ r # q
    /\ ProxyCalled(r) /\ ProxyCalled(q)
    /\ stored[r].refreshToken = stored[q].refreshToken
    /\ \E i \in 1..Len(calls[r]), j \in 1..Len(calls[q]) :
         /\ RefreshWith(r, i, stored[r].refreshToken)
         /\ RefreshWith(q, j, stored[q].refreshToken)
         /\ Accepted(r, i)
         /\ calls[q][j].status = 401

\* The browser applies the response of a, that of b being applied already.
AppliedSecond(a, b) ==
    pc[a] = "done" /\ pc'[a] = "delivered" /\ pc[b] = "delivered"

WinnerPair(r) == calls[r][LastAccepted(r)].got

\* C27 as stated: once the responses of both requests of a refresh race are
\* applied to the cookie jar, in either order, the jar holds the pair the
\* winner obtained.
C27_Original ==
    [][\A r, q \in Reqs :
          ((AppliedSecond(r, q) \/ AppliedSecond(q, r)) /\ RaceWon(r, q))
              => jar' = WinnerPair(r)]_vars

\* C27 (amended): the jar holds the winner's pair only when the winner's
\* response is applied after the loser's and is not a 401.  When the
\* loser's 401 is applied after the winner's response it wipes both
\* cookies, the winner's still valid pair included; a winner whose own
\* response is a 401 clears them as well.
C27_RaceJar ==
    [][\A r, q \in Reqs :
          /\ (AppliedSecond(q, r) /\ RaceWon(r, q)) => jar' = NoTokens
          /\ (AppliedSecond(r, q) /\ RaceWon(r, q))
                => jar' = (IF response[r].status = 401
                             THEN NoTokens
                             ELSE WinnerPair(r))]_vars

C27_Witness ==
    \E r, q \in Reqs :
        /\ RaceWon(r, q)
        /\ pc[r] = "delivered" /\ pc[q] = "delivered"
        /\ response[r].status = 200
        /\ SetsCookies(response[r], WinnerPair(r))
        /\ backendRefresh = WinnerPair(r).refreshToken
        /\ jar = NoTokens

\* ------------------------------------------------------------------ C29
\* The promise of fetchUsersPage call v settles in this step.
Settles(v) ==
    /\ v \in 1..Len(usersRequests)
    /\ usersRequests[v].state = "pending"
    /\ usersRequests'[v].state # "pending"

\* What the list shows once the data of request q is applied.
Shows(q) ==
    /\ users = UsersConnection(q.after).nodes
    /\ usersTotalCount = UsersConnection(q.after).totalCount
    /\ usersPageInfo = UsersConnection(q.after).pageInfo
    /\ usersPage = q.page

UsersSettled == \A v \in 1..Len(usersRequests) : usersRequests[v].state # "pending"

\* C30: once rows are on display and every fetch has settled (resolved,
\* failed or superseded), the cursor a current-page refresh would send,
\* usersAfterHistory[usersPage - 1] ?? null, is the cursor the rows on
\* display were loaded with.
C30_HistoryTracksPage ==
    (users # <<>> /\ UsersSettled) =>
        users = UsersConnection(afterOf(usersAfterHistory, usersPage)).nodes

====
